---- MODULE Spec2Model ----
(***************************************************************************)
(* Model of the QRIS TLV codec, the CRC16 function and the static-to-      *)
(* dynamic payload transformer of src/utils.ts, and of the App component   *)
(* of src/App.tsx that calls them.                                         *)
(*                                                                         *)
(* A JavaScript string is a sequence of one-character strings.  Integers   *)
(* produced by the bit operators <<, ^ and & are 32-bit two's-complement   *)
(* values, kept here as their residue modulo 2^32.                         *)
(***************************************************************************)
EXTENDS Integers, Sequences, FiniteSets, Bags, TLC

VARIABLES
    op,             \* the exported or internal function under evaluation
    pc,             \* position inside that function
    staticPayload,  \* generateDynamicQris argument
    amount,         \* generateDynamicQris argument
    payload,        \* parseTLV argument (cleanPayload inside generateDynamicQris)
    i,              \* parseTLV cursor
    tags,           \* the Map built by parseTLV: insertion-ordered <<tag, value>> pairs
    rec,            \* the latest parseTLV iteration: <<tag, parsed length, value>>
    m,              \* the Map handed to serializeTLV
    excludeTags,    \* serializeTLV argument
    emitted,        \* the records serializeTLV emitted: <<tag, length field, value>>, in order
    data,           \* crc16 argument
    result,         \* the string returned, or NoResult while none is
    runs,           \* the completed calls of generateDynamicQris: arguments and result
    view,               \* App state: 'input' or 'result'
    staticQris,         \* App state: the selected merchant, or null
    dynamicQrisPayload, \* App state: the generated payload, or null
    isProcessing,       \* App state
    isCameraActive,     \* App state
    savedMerchants,     \* App state: the merchant history
    showMerchantMenu,   \* App state
    scanIntervalRef,    \* App ref: the closure of the interval callback when set, else <<>>
    qris_merchants,     \* localStorage item 'qris_merchants', as parsed
    pending,            \* the async functions suspended at an await, with what they closed over
    now                 \* the latest value read from Date.now()

\* the state of the App component and of what it has started
appVars ==
    <<view, staticQris, dynamicQrisPayload, isProcessing, isCameraActive, savedMerchants,
      showMerchantMenu, scanIntervalRef, qris_merchants, pending, now>>

vars ==
    <<op, pc, staticPayload, amount, payload, i, tags, rec, m, excludeTags, emitted, data, result,
      runs, appVars>>

-----------------------------------------------------------------------------
(* Bounds of the explored input space.                                     *)

MaxRecs == 2        \* pieces concatenated into one input payload
MaxLongRecs == 1    \* the same, when the amount is a long one
MaxKeys == 2        \* entries of a Map handed to serializeTLV
MaxData == 4        \* characters of a crc16 input
MaxTwiceRecs == 2   \* pieces of a payload that is transformed twice
MaxPending == 2     \* async functions of the App suspended at the same time
MaxNow == 2         \* the last value of the clock read by Date.now()

-----------------------------------------------------------------------------
(* Characters and strings.                                                 *)

CharCode(c) ==
    CASE c = " " -> 32  [] c = "+" -> 43  [] c = "-" -> 45
      [] c = "0" -> 48  [] c = "1" -> 49  [] c = "2" -> 50  [] c = "3" -> 51
      [] c = "4" -> 52  [] c = "5" -> 53  [] c = "6" -> 54  [] c = "7" -> 55
      [] c = "8" -> 56  [] c = "9" -> 57
      [] c = "A" -> 65  [] c = "B" -> 66  [] c = "C" -> 67  [] c = "D" -> 68
      [] c = "E" -> 69  [] c = "F" -> 70  [] c = "I" -> 73
      [] c = "euro" -> 8364          \* U+20AC
      [] c = "wideA" -> 65313        \* U+FF21

Digits == <<"0", "1", "2", "3", "4", "5", "6", "7", "8", "9">>

HexDigits == Digits \o <<"A", "B", "C", "D", "E", "F">>

IsDigit(c) == c \in {Digits[k] : k \in 1..10}

DigitVal(c) == CHOOSE d \in 0..9 : Digits[d + 1] = c

IsSpace(c) == c = " "

\* JavaScript's NaN; every other number of the model is an integer above it
NaN == -1000000

Plus(a, b) == IF a = NaN \/ b = NaN THEN NaN ELSE a + b

Less(a, b) == a # NaN /\ b # NaN /\ a < b

\* ToIntegerOrInfinity followed by the clamp of String.prototype.substring
Clamp(x, n) == IF x = NaN \/ x < 0 THEN 0 ELSE IF x > n THEN n ELSE x

\* String.prototype.substring(start, end): clamps both, swaps them if start > end
Substring(s, start, end) ==
    LET a == Clamp(start, Len(s))
        b == Clamp(end, Len(s))
    IN  IF a <= b THEN SubSeq(s, a + 1, b) ELSE SubSeq(s, b + 1, a)

RECURSIVE LStrip(_)
LStrip(s) == IF s # <<>> /\ IsSpace(Head(s)) THEN LStrip(Tail(s)) ELSE s

RECURSIVE RStrip(_)
RStrip(s) ==
    IF s # <<>> /\ IsSpace(s[Len(s)]) THEN RStrip(SubSeq(s, 1, Len(s) - 1)) ELSE s

\* String.prototype.trim
Trim(s) == RStrip(LStrip(s))

RECURSIVE DigitRun(_)
DigitRun(s) ==
    IF s # <<>> /\ IsDigit(Head(s)) THEN <<Head(s)>> \o DigitRun(Tail(s)) ELSE <<>>

RECURSIVE DecVal(_)
DecVal(ds) ==
    IF ds = <<>> THEN 0 ELSE 10 * DecVal(SubSeq(ds, 1, Len(ds) - 1)) + DigitVal(ds[Len(ds)])

\* parseInt(s, 10): skips leading white space, takes an optional sign and the
\* longest run of decimal digits, ignores what follows; NaN without a digit
ParseInt(s) ==
    LET t      == LStrip(s)
        signed == t # <<>> /\ Head(t) \in {"+", "-"}
        ds     == DigitRun(IF signed THEN Tail(t) ELSE t)
    IN  IF ds = <<>> THEN NaN
        ELSE IF signed /\ Head(t) = "-" THEN 0 - DecVal(ds) ELSE DecVal(ds)

\* Number.prototype.toString(radix) of a non-negative integer, upper case
RECURSIVE ToStringRadix(_, _)
ToStringRadix(n, radix) ==
    IF n < radix THEN <<HexDigits[n + 1]>>
    ELSE ToStringRadix(n \div radix, radix) \o <<HexDigits[(n % radix) + 1]>>

\* String.prototype.padStart(targetLength, padChar)
RECURSIVE PadStart(_, _, _)
PadStart(s, targetLength, padChar) ==
    IF Len(s) >= targetLength THEN s ELSE PadStart(<<padChar>> \o s, targetLength, padChar)

-----------------------------------------------------------------------------
(* crc16, src/utils.ts:11-27.  The register is a 32-bit integer, as the    *)
(* operators <<, ^ and & make it; it is kept as two 16-bit halves.         *)

Word(h, l) == [hi |-> h, lo |-> l]

\* bitwise exclusive or of two non-negative integers
RECURSIVE Xor(_, _)
Xor(a, b) ==
    IF a = 0 THEN b
    ELSE IF b = 0 THEN a
    ELSE ((a + b) % 2) + 2 * Xor(a \div 2, b \div 2)

\* w ^ v
XorW(w, v) == Word(Xor(w.hi, v.hi), Xor(w.lo, v.lo))

\* w << 1, bit 31 is shifted out
Shl1(w) == Word((2 * w.hi + (w.lo \div 32768)) % 65536, (2 * w.lo) % 65536)

\* data.charCodeAt(i) << 8, for a code unit 0..0xFFFF
CharShl8(c) == Word(CharCode(c) \div 256, (CharCode(c) % 256) * 256)

\* the test made on bit 31, the top bit of the unmasked 32-bit register
TopBitSetOfInt32(w) == w.hi >= 32768

\* (w & 0x8000) !== 0
TopBitSet(w) == (w.lo \div 32768) % 2 = 1

\* w & 0xFFFF
Mask16(w) == Word(0, w.lo)

poly == 4129        \* 0x1021

\* the body of the inner loop, utils.ts:18-22; the register is not masked here
BitStep(crc) ==
    IF TopBitSet(crc) THEN XorW(Shl1(crc), Word(0, poly)) ELSE Shl1(crc)

\* (binding the new register through a singleton set makes TLC evaluate it
\* once per iteration)
RECURSIVE BitLoop(_, _)
BitLoop(crc, j) ==
    IF j = 8 THEN crc
    ELSE CHOOSE r \in {BitLoop(next, j + 1) : next \in {BitStep(crc)}} : TRUE

\* the iteration without its final crc &= 0xFFFF
CharStepUnmasked(crc, c) == BitLoop(XorW(crc, CharShl8(c)), 0)

\* one iteration of the outer loop, utils.ts:16-24
CharStep(crc, c) == Mask16(BitLoop(XorW(crc, CharShl8(c)), 0))

\* the outer loop, utils.ts:15-25, over characters lo..hi of str, started with
\* register crc: the characters are taken left to right, the range by halves
RECURSIVE CrcRegister(_, _, _, _)
CrcRegister(crc, str, lo, hi) ==
    IF lo > hi THEN crc
    ELSE IF lo = hi THEN CharStep(crc, str[lo])
    ELSE LET mid == (lo + hi) \div 2
         IN  CHOOSE r \in {CrcRegister(left, str, mid + 1, hi) :
                               left \in {CrcRegister(crc, str, lo, mid)}} : TRUE

\* the register after the outer loop, started at 0xFFFF
crcFinal(str) == CrcRegister(Word(0, 65535), str, 1, Len(str))

\* two's complement of a 32-bit integer
NegW(w) ==
    Word((65535 - w.hi + (IF w.lo = 0 THEN 1 ELSE 0)) % 65536, (65536 - w.lo) % 65536)

\* crc.toString(16).toUpperCase() of a 32-bit integer: sign and magnitude
WordToHex(w) ==
    LET neg == w.hi >= 32768
        mag == IF neg THEN NegW(w) ELSE w
        hex == IF mag.hi = 0 THEN ToStringRadix(mag.lo, 16)
               ELSE ToStringRadix(mag.hi, 16) \o PadStart(ToStringRadix(mag.lo, 16), 4, "0")
    IN  IF neg THEN <<"-">> \o hex ELSE hex

crc16(str) == PadStart(WordToHex(crcFinal(str)), 4, "0")

-----------------------------------------------------------------------------
(* Map<string, string>: a sequence of <<key, value>> pairs with distinct   *)
(* keys, in insertion order.                                               *)

Keys(map) == [k \in 1..Len(map) |-> map[k][1]]

Range(seq) == {seq[k] : k \in 1..Len(seq)}

MapHas(map, key) == key \in Range(Keys(map))

MapGet(map, key) == map[CHOOSE k \in 1..Len(map) : map[k][1] = key][2]

\* a set that leaves the value of an existing key alone
MapSetKeepFirst(map, key, value) ==
    IF MapHas(map, key) THEN map ELSE Append(map, <<key, value>>)

\* Map.prototype.set: an existing key keeps its place, a new one goes last
MapSet(map, key, value) ==
    IF MapHas(map, key)
    THEN [k \in 1..Len(map) |-> IF map[k][1] = key THEN <<key, value>> ELSE map[k]]
    ELSE Append(map, <<key, value>>)

-----------------------------------------------------------------------------
(* parseTLV, src/utils.ts:32-43: one iteration of the while loop.          *)

ParseTag(p, at) == Substring(p, at, at + 2)

ParseLength(p, at) == ParseInt(Substring(p, at + 2, at + 4))

ParseValue(p, at) == Substring(p, at + 4, Plus(at + 4, ParseLength(p, at)))

ParseNext(at, length) == Plus(at + 4, length)

\* the loop condition i < payload.length, false once i is NaN
ParseMore(p, at) == Less(at, Len(p))

-----------------------------------------------------------------------------
(* serializeTLV, src/utils.ts:48-60.                                       *)

\* the comparator with its operands exchanged: a descending order
CompareReversed(a, b) ==
    LET d == IF ParseInt(a) = NaN \/ ParseInt(b) = NaN THEN NaN ELSE ParseInt(b) - ParseInt(a)
    IN  IF d = NaN THEN 0 ELSE d

\* the comparator (a, b) => parseInt(a, 10) - parseInt(b, 10); a NaN result
\* is read as +0 by Array.prototype.sort
Compare(a, b) ==
    LET d == IF ParseInt(a) = NaN \/ ParseInt(b) = NaN THEN NaN ELSE ParseInt(a) - ParseInt(b)
    IN  IF d = NaN THEN 0 ELSE d

\* the comparator orders the keys consistently: being equal is transitive
Consistent(keys) ==
    \A a, b, c \in Range(keys) :
        (Compare(a, b) = 0 /\ Compare(b, c) = 0) => Compare(a, c) = 0

\* stable insertion: key goes before the first element that compares greater
RECURSIVE InsertSorted(_, _)
InsertSorted(sorted, key) ==
    IF sorted = <<>> THEN <<key>>
    ELSE IF Compare(Head(sorted), key) > 0 THEN <<key>> \o sorted
    ELSE <<Head(sorted)>> \o InsertSorted(Tail(sorted), key)

\* no sort at all: the keys in insertion order
StableSortNone(keys) == keys

RECURSIVE StableSort(_)
StableSort(keys) ==
    IF keys = <<>> THEN <<>>
    ELSE InsertSorted(StableSort(SubSeq(keys, 1, Len(keys) - 1)), keys[Len(keys)])

Perms(keys) ==
    {[k \in 1..Len(keys) |-> keys[f[k]]] :
        f \in {g \in [1..Len(keys) -> 1..Len(keys)] : \A x, y \in 1..Len(keys) : x # y => g[x] # g[y]}}

\* Array.from(tags.keys()).sort(comparator): the stable sort when the
\* comparator is consistent, an implementation-defined order otherwise
SortedTags(map) ==
    IF Consistent(Keys(map)) THEN {StableSort(Keys(map))} ELSE Perms(Keys(map))

\* the record with its length written without padStart
EmitRecordUnpadded(map, tag) ==
    <<tag, ToStringRadix(Len(MapGet(map, tag)), 10), MapGet(map, tag)>>

\* one loop iteration, utils.ts:54-57: the record emitted for tag
EmitRecord(map, tag) ==
    LET value  == MapGet(map, tag)      \* tags.get(tag) || '' is the value itself
        length == PadStart(ToStringRadix(Len(value), 10), 2, "0")
    IN  <<tag, length, value>>

\* the records of the for loop, utils.ts:53-58, over a given sortedTags
RECURSIVE EmitAll(_, _, _)
EmitAll(map, exclude, sortedTags) ==
    IF sortedTags = <<>> THEN <<>>
    ELSE IF Head(sortedTags) \in exclude
         THEN EmitAll(map, exclude, Tail(sortedTags))
         ELSE <<EmitRecord(map, Head(sortedTags))>>
                  \o EmitAll(map, exclude, Tail(sortedTags))

\* result += tag + length + value, over the emitted records
RECURSIVE Concat(_)
Concat(records) ==
    IF records = <<>> THEN <<>>
    ELSE Head(records)[1] \o Head(records)[2] \o Head(records)[3] \o Concat(Tail(records))

\* a serialization that skips no tag
serializeTLVNoExclude(map, exclude, sortedTags) == Concat(EmitAll(map, {}, sortedTags))

serializeTLV(map, exclude, sortedTags) == Concat(EmitAll(map, exclude, sortedTags))

-----------------------------------------------------------------------------
(* The inputs explored.                                                    *)

Rep(c, n) == [k \in 1..n |-> c]

NoResult == <<"undefined">>

\* well-formed records, and fragments that break the TLV structure
Pieces ==
    { <<"0", "0", "0", "2", "0", "1">>,                 \* 00 02 "01"
      <<"0", "0", "0", "0">>,                           \* 00 00 ""
      <<"0", "1", "0", "2", "1", "1">>,                 \* 01 02 "11"  static
      <<"0", "1", "0", "2", "1", "2">>,                 \* 01 02 "12"  dynamic
      <<"0", "1", "0", "1", "7">>,                      \* 01 01 "7"
      <<"5", "4", "0", "2", "5", "0">>,                 \* 54 02 "50"
      <<"5", "8", "0", "2", "6", "2">>,                 \* 58 02 "62"
      <<"6", "3", "0", "4", "1", "2", "3", "4">>,       \* 63 04 "1234"
      <<"6", "4", "0", "1", "7">>,                      \* 64 01 "7"
      <<" ">>,                                          \* white space
      <<"0", "1", "0", "2">>,                           \* 01 02, value missing
      <<"5", "8", "0">>,                                \* 58 0, length field cut
      <<"5", "8", "I", "D">>,                           \* 58 ID, length not a number
      <<"0", "0", "-", "4">>,                           \* 00 -4, negative length
      <<"0", "0", "-", "5">> }                          \* 00 -5, negative length

RECURSIVE Payloads(_)
Payloads(n) ==
    IF n = 0 THEN {<<>>}
    ELSE Payloads(n - 1) \cup {p \o q : p \in Payloads(n - 1), q \in Pieces}

ShortAmounts == { <<"5">>, <<"1", "0", "0", "0", "0">> }

\* the longest amount a 2-digit length field can describe, and one more
LongAmounts == { Rep("7", 99), Rep("7", 100) }

Amounts == ShortAmounts \cup LongAmounts

\* 2-digit tags and values for the Maps handed to serializeTLV directly
MapTags == { <<"0", "0">>, <<"0", "1">>, <<"5", "4">>, <<"6", "3">>, <<"6", "4">> }

MapValues ==
    { <<>>, <<"7">>, <<"0", "1", "0", "2">>, Rep("9", 10), Rep("8", 99), Rep("8", 100) }

RECURSIVE Maps(_)
Maps(n) ==
    IF n = 0 THEN {<<>>}
    ELSE Maps(n - 1) \cup
         {Append(mp, <<t, v>>) : mp \in {x \in Maps(n - 1) : Len(x) = n - 1},
                                t \in MapTags, v \in MapValues}

DistinctKeys(map) == \A x, y \in 1..Len(map) : x # y => map[x][1] # map[y][1]

DataChars == {"0", "1", "A", " ", "euro", "wideA"}

RECURSIVE DataStrings(_)
DataStrings(n) ==
    IF n = 0 THEN {<<>>}
    ELSE DataStrings(n - 1) \cup {Append(d, c) : d \in DataStrings(n - 1), c \in DataChars}

-----------------------------------------------------------------------------
(* The App component, src/App.tsx, before anything is analysed: the state  *)
(* of the useState and useRef calls, App.tsx:46-61, and an empty history.  *)

null == [payload |-> <<"null">>, id |-> -1]

nullString == <<"null">>

AppInitial ==
    /\ view = "input"
    /\ staticQris = null
    /\ dynamicQrisPayload = nullString
    /\ isProcessing = FALSE
    /\ isCameraActive = FALSE
    /\ savedMerchants = <<>>
    /\ showMerchantMenu = FALSE
    /\ scanIntervalRef = <<>>
    /\ qris_merchants = <<>>
    /\ pending = EmptyBag
    /\ now = 0

-----------------------------------------------------------------------------
(* generateDynamicQris, src/utils.ts:69-96.                                *)

InitGen ==
    /\ op = "generateDynamicQris"
    /\ pc = "start"
    /\ \/ staticPayload \in Payloads(MaxRecs) /\ amount \in ShortAmounts
       \/ staticPayload \in Payloads(MaxLongRecs) /\ amount \in LongAmounts
    /\ payload = <<>> /\ i = 0 /\ tags = <<>> /\ rec = <<>>
    /\ m = <<>> /\ excludeTags = {} /\ emitted = <<>> /\ data = <<>>
    /\ result = NoResult
    /\ runs = <<>>
    /\ AppInitial

\* utils.ts:71-72: trim, then enter parseTLV
GenStart ==
    /\ op = "generateDynamicQris" /\ pc = "start"
    /\ payload' = Trim(staticPayload)
    /\ i' = 0
    /\ tags' = <<>>
    /\ pc' = "parse"
    /\ UNCHANGED <<appVars, runs, op, staticPayload, amount, rec, m, excludeTags, emitted, data, result>>

\* utils.ts:35-41: one iteration of the while loop of parseTLV
ParseStep ==
    /\ pc = "parse"
    /\ ParseMore(payload, i)
    /\ tags' = MapSet(tags, ParseTag(payload, i), ParseValue(payload, i))
    /\ rec' = <<ParseTag(payload, i), ParseLength(payload, i), ParseValue(payload, i)>>
    /\ i' = ParseNext(i, ParseLength(payload, i))
    /\ UNCHANGED <<appVars, runs, op, pc, staticPayload, amount, payload, m, excludeTags, emitted, data, result>>

\* utils.ts:35,42: the loop condition fails and parseTLV returns tags
ParseReturn ==
    /\ pc = "parse"
    /\ ~ParseMore(payload, i)
    /\ pc' = "parsed"
    /\ UNCHANGED <<appVars, runs, op, staticPayload, amount, payload, i, tags, rec, m, excludeTags,
                   emitted, data, result>>

\* tag 01 is set only when the payload has none
SetDynamicTagsKeep01(map, amt) ==
    MapSet(IF MapHas(map, <<"0", "1">>) THEN map ELSE MapSet(map, <<"0", "1">>, <<"1", "2">>),
           <<"5", "4">>, amt)

\* tag 54 is added only when the payload has none
SetDynamicTagsKeep54(map, amt) ==
    IF MapHas(map, <<"5", "4">>) THEN MapSet(map, <<"0", "1">>, <<"1", "2">>)
    ELSE MapSet(MapSet(map, <<"0", "1">>, <<"1", "2">>), <<"5", "4">>, amt)

\* utils.ts:76-79: tags.set('01', '12'); tags.set('54', amount.toString())
SetDynamicTags(map, amt) ==
    MapSet(MapSet(map, <<"0", "1">>, <<"1", "2">>), <<"5", "4">>, amt)

\* the CRC taken before the header "6304" is appended
AppendChecksumOverBase(base) == base \o <<"6", "3", "0", "4">> \o crc16(base)

\* utils.ts:85-90: append the header "6304", then the CRC of all that precedes
AppendChecksum(base) ==
    LET basePayload == base \o <<"6", "3", "0", "4">>
    IN  basePayload \o crc16(basePayload)

\* utils.ts:76-90: set tags 01 and 54, serialize without 63, append the
\* checksum header and the checksum.  No statement of the try block throws
\* for string arguments, so the catch block (utils.ts:91-95) is never entered.
GenFinish ==
    /\ op = "generateDynamicQris" /\ pc = "parsed"
    /\ \E sortedTags \in SortedTags(SetDynamicTags(tags, amount)) :
           /\ emitted' = EmitAll(SetDynamicTags(tags, amount), {<<"6", "3">>}, sortedTags)
           /\ result' = AppendChecksum(
                            serializeTLV(SetDynamicTags(tags, amount), {<<"6", "3">>}, sortedTags))
    /\ m' = SetDynamicTags(tags, amount)
    /\ excludeTags' = {<<"6", "3">>}
    /\ pc' = "done"
    /\ UNCHANGED <<appVars, runs, op, staticPayload, amount, payload, i, tags, rec, data>>

NextGen == GenStart \/ ParseStep \/ ParseReturn \/ GenFinish

SpecGen == InitGen /\ [][NextGen]_vars

-----------------------------------------------------------------------------
(* The codec on its own: serializeTLV(m, excludeTags), then parseTLV of    *)
(* the string it returned.                                                 *)

InitCodec ==
    /\ op = "serializeTLV"
    /\ pc = "start"
    /\ m \in {mp \in Maps(MaxKeys) : DistinctKeys(mp)}
    /\ excludeTags \in {{}, {<<"6", "3">>}}
    /\ staticPayload = <<>> /\ amount = <<>> /\ payload = <<>> /\ i = 0
    /\ tags = <<>> /\ rec = <<>> /\ emitted = <<>> /\ data = <<>>
    /\ result = NoResult
    /\ runs = <<>>
    /\ AppInitial

\* utils.ts:48-60: the whole of serializeTLV
SerializeCall ==
    /\ op = "serializeTLV" /\ pc = "start"
    /\ \E sortedTags \in SortedTags(m) :
           /\ emitted' = EmitAll(m, excludeTags, sortedTags)
           /\ result' = serializeTLV(m, excludeTags, sortedTags)
    /\ pc' = "serialized"
    /\ UNCHANGED <<appVars, runs, op, staticPayload, amount, payload, i, tags, rec, m, excludeTags, data>>

\* parseTLV is called on the serialized string
ParseCall ==
    /\ op = "serializeTLV" /\ pc = "serialized"
    /\ op' = "parseTLV"
    /\ payload' = result
    /\ i' = 0
    /\ tags' = <<>>
    /\ pc' = "parse"
    /\ UNCHANGED <<appVars, runs, staticPayload, amount, rec, m, excludeTags, emitted, data, result>>

NextCodec == SerializeCall \/ ParseCall \/ ParseStep \/ ParseReturn

SpecCodec == InitCodec /\ [][NextCodec]_vars

-----------------------------------------------------------------------------
(* crc16 on its own.                                                       *)

InitCrc ==
    /\ op = "crc16"
    /\ pc = "start"
    /\ data \in DataStrings(MaxData)
    /\ staticPayload = <<>> /\ amount = <<>> /\ payload = <<>> /\ i = 0
    /\ tags = <<>> /\ rec = <<>> /\ m = <<>> /\ excludeTags = {} /\ emitted = <<>>
    /\ result = NoResult
    /\ runs = <<>>
    /\ AppInitial

\* utils.ts:11-27: the whole of crc16
CrcCall ==
    /\ op = "crc16" /\ pc = "start"
    /\ result' = crc16(data)
    /\ pc' = "done"
    /\ UNCHANGED <<appVars, runs, op, staticPayload, amount, payload, i, tags, rec, m, excludeTags,
                   emitted, data>>

NextCrc == CrcCall

SpecCrc == InitCrc /\ [][NextCrc]_vars

-----------------------------------------------------------------------------
(* The TLV format as a reader sees it, written independently of parseTLV.  *)

\* s is a sequence of records: 2 characters of tag, 2 decimal digits of
\* length, then exactly that many characters of value
RECURSIVE WellFormed(_)
WellFormed(s) ==
    \/ s = <<>>
    \/ /\ Len(s) >= 4
       /\ IsDigit(s[3]) /\ IsDigit(s[4])
       /\ Len(s) >= 4 + 10 * DigitVal(s[3]) + DigitVal(s[4])
       /\ WellFormed(SubSeq(s, 5 + 10 * DigitVal(s[3]) + DigitVal(s[4]), Len(s)))

\* the records <<tag, value>> of a well-formed s, in order
RECURSIVE Records(_)
Records(s) ==
    IF s = <<>> THEN <<>>
    ELSE LET n == 10 * DigitVal(s[3]) + DigitVal(s[4])
         IN  <<<<SubSeq(s, 1, 2), SubSeq(s, 5, 4 + n)>>>> \o Records(SubSeq(s, 5 + n, Len(s)))

IsTag(t) == Len(t) = 2 /\ IsDigit(t[1]) /\ IsDigit(t[2])

TagNum(t) == 10 * DigitVal(t[1]) + DigitVal(t[2])

\* the input of generateDynamicQris is a payload of the data model: after
\* the trim, well-formed records with 2-digit tags
Parsable(s) ==
    /\ WellFormed(Trim(s))
    /\ \A k \in 1..Len(Records(Trim(s))) : IsTag(Records(Trim(s))[k][1])

Tag01 == <<"0", "1">>
Tag54 == <<"5", "4">>
Tag63 == <<"6", "3">>

\* the <<tag, value>> pairs of the records serializeTLV emitted
EmittedPairs == [k \in 1..Len(emitted) |-> <<emitted[k][1], emitted[k][3]>>]

\* the records of recs whose tag is none of 01, 54, 63
Others(recs) == SelectSeq(recs, LAMBDA r : r[1] \notin {Tag01, Tag54, Tag63})

GenDone == op = "generateDynamicQris" /\ pc = "done"

-----------------------------------------------------------------------------
(* C1: the returned payload ends with "6304" and 4 characters, and these   *)
(* 4 characters are crc16 of everything before them, the header included.  *)

C1_ChecksumCoversPrefix ==
    GenDone =>
        LET n == Len(result)
        IN  /\ n >= 8
            /\ SubSeq(result, n - 7, n - 4) = <<"6", "3", "0", "4">>
            /\ SubSeq(result, n - 3, n) = crc16(SubSeq(result, 1, n - 4))

\* a payload was transformed and its checksum starts with a padding zero
C1_Witness ==
    /\ GenDone
    /\ Parsable(staticPayload) /\ staticPayload # <<>>
    /\ result # staticPayload
    /\ result[Len(result) - 3] = "0"

-----------------------------------------------------------------------------
(* C2: an input that is not a TLV sequence (a length field that is not two *)
(* decimal digits or is cut short, a value that runs past the end) comes   *)
(* back unchanged, whatever the amount.                                    *)

C2_FallbackReturnsInput ==
    (GenDone /\ ~WellFormed(Trim(staticPayload))) => result = staticPayload

-----------------------------------------------------------------------------
(* C3: parseTLV returns no mapping for a payload with a length field that  *)
(* is not a decimal integer or a value that runs past the end, and never   *)
(* stores a value shorter than its declared length.                        *)

C3_ParseRejectsMalformed ==
    /\ pc = "parsed" => WellFormed(payload)
    /\ rec # <<>> => (rec[2] # NaN /\ Len(rec[3]) >= rec[2])

-----------------------------------------------------------------------------
(* C4: round trip.  For a Map with 2-digit tags and values of at most 99   *)
(* characters, empty ones included, parseTLV(serializeTLV(m, [])) has the  *)
(* tags of m and the value of m for each tag.                              *)

SameMapping(a, b) ==
    /\ Range(Keys(a)) = Range(Keys(b))
    /\ \A key \in Range(Keys(a)) : MapGet(a, key) = MapGet(b, key)

FitsLengthField(map) == \A k \in 1..Len(map) : Len(map[k][2]) <= 99

RoundTripDone == op = "parseTLV" /\ pc = "parsed" /\ excludeTags = {}

C4_RoundTrip ==
    (RoundTripDone /\ FitsLengthField(m)) => SameMapping(tags, m)

\* a round trip of a Map holding an empty value and one of 99 characters
C4_Witness ==
    /\ RoundTripDone
    /\ Len(m) = 2 /\ Len(tags) = 2
    /\ \E k \in 1..2 : m[k][2] = <<>>
    /\ \E k \in 1..2 : Len(m[k][2]) = 99

-----------------------------------------------------------------------------
(* C5: the records of the input with a tag other than 01, 54 and 63.       *)

InputRecords == Records(Trim(staticPayload))

\* the output as a TLV reader sees it, its last record being the checksum
OutputRecords == Records(result)

\* the original statement: every such record is in the output with its
\* value, in the input's relative order, whatever that order was
C5_OthersKeptInInputOrder ==
    (GenDone /\ Parsable(staticPayload)) => Others(EmittedPairs) = Others(InputRecords)

LastValue(recs, tag) ==
    recs[CHOOSE k \in 1..Len(recs) :
            recs[k][1] = tag /\ \A l \in (k + 1)..Len(recs) : recs[l][1] # tag][2]

Ascending(recs) ==
    \A k, l \in 1..Len(recs) : k < l => TagNum(recs[k][1]) < TagNum(recs[l][1])

\* as amended: each such tag of the input is emitted once, with the value of
\* its last occurrence, in ascending numeric tag order; this is the input's
\* order when the input had these tags ascending.  The output holds no
\* other record than these, 01, 54 and the checksum, and for an amount of
\* at most 99 characters a reader finds exactly the emitted records in it.
C5_OthersKeptSorted ==
    (GenDone /\ Parsable(staticPayload)) =>
        LET out == Others(EmittedPairs)
            inp == Others(InputRecords)
        IN  /\ Ascending(out)
            /\ {out[k][1] : k \in 1..Len(out)} = {inp[k][1] : k \in 1..Len(inp)}
            /\ \A k \in 1..Len(out) : out[k][2] = LastValue(inp, out[k][1])
            /\ Ascending(inp) => out = inp
            /\ {EmittedPairs[k][1] : k \in 1..Len(emitted)} =
                   {out[k][1] : k \in 1..Len(out)} \cup {Tag01, Tag54}
            /\ Len(amount) <= 99 =>
                   /\ WellFormed(result)
                   /\ SubSeq(OutputRecords, 1, Len(OutputRecords) - 1) = EmittedPairs
                   /\ OutputRecords[Len(OutputRecords)][1] = Tag63

\* an input with two such records in descending order, one tag twice
C5_Witness ==
    /\ GenDone /\ Parsable(staticPayload)
    /\ Len(Others(InputRecords)) = 2
    /\ ~Ascending(Others(InputRecords))
    /\ Len(Others(EmittedPairs)) >= 1

-----------------------------------------------------------------------------
(* C6: whatever the input held for tag 01 (nothing, "11", "12", another    *)
(* value, several records), the output has exactly one tag 01 record, and  *)
(* it is "010212".                                                         *)

CountTag(recs, tag) == Cardinality({k \in 1..Len(recs) : recs[k][1] = tag})

C6_OneTag01Dynamic ==
    (GenDone /\ WellFormed(Trim(staticPayload))) =>
        /\ CountTag(emitted, Tag01) = 1
        /\ \A k \in 1..Len(emitted) :
               emitted[k][1] = Tag01 => emitted[k] = <<Tag01, <<"0", "2">>, <<"1", "2">>>>
        /\ Len(amount) <= 99 =>
               /\ WellFormed(result)
               /\ CountTag(OutputRecords, Tag01) = 1
               /\ \A k \in 1..Len(OutputRecords) :
                      OutputRecords[k][1] = Tag01 => OutputRecords[k][2] = <<"1", "2">>

\* the input held two tag 01 records, neither of them "12"
C6_Witness ==
    /\ GenDone /\ WellFormed(Trim(staticPayload))
    /\ CountTag(InputRecords, Tag01) = 2
    /\ \A k \in 1..Len(InputRecords) : InputRecords[k][2] # <<"1", "2">>

-----------------------------------------------------------------------------
(* C7: for an amount of 1 to 99 characters the output has exactly one tag  *)
(* 54 record, "54" + 2-digit length + amount, after every record with a    *)
(* smaller tag and before every record with a larger one.                  *)

C7_OneTag54InPlace ==
    (GenDone /\ Parsable(staticPayload) /\ Len(amount) \in 1..99) =>
        /\ WellFormed(result)
        /\ CountTag(OutputRecords, Tag54) = 1
        /\ \A k \in 1..Len(OutputRecords) :
               OutputRecords[k][1] = Tag54 =>
                   /\ OutputRecords[k][2] = amount
                   /\ \A l \in 1..Len(OutputRecords) :
                          /\ l < k => TagNum(OutputRecords[l][1]) < 54
                          /\ l > k => TagNum(OutputRecords[l][1]) > 54
        /\ \E k \in 1..Len(emitted) :
               emitted[k] = <<Tag54, PadStart(ToStringRadix(Len(amount), 10), 2, "0"), amount>>

\* the input held a tag 54 record of its own, ahead of a record with a larger tag
C7_Witness ==
    /\ GenDone /\ Parsable(staticPayload) /\ Len(amount) = 5
    /\ Len(InputRecords) = 2
    /\ InputRecords[1][1] = Tag54 /\ InputRecords[1][2] # amount
    /\ TagNum(InputRecords[2][1]) > 63

-----------------------------------------------------------------------------
(* C8: an amount of more than 99 characters is rejected: no payload is     *)
(* returned that carries it in a tag 54 record whose length field is wrong *)
(* or is not two digits.                                                   *)

C8_OversizedAmountRejected ==
    (GenDone /\ Len(amount) > 99) =>
        ~\E k \in 1..Len(emitted) :
            /\ emitted[k][1] = Tag54 /\ emitted[k][3] = amount
            /\ Len(emitted[k][2]) # 2

-----------------------------------------------------------------------------
(* C9: serializeTLV emits the records in non-decreasing order of the tag   *)
(* read as a base-10 integer, and returns the same string for every        *)
(* insertion order of the same tag/value pairs.                            *)

C9_SortedWhateverInsertionOrder ==
    (op = "serializeTLV" /\ pc = "serialized") =>
        /\ \A k, l \in 1..Len(emitted) :
               k < l => TagNum(emitted[k][1]) <= TagNum(emitted[l][1])
        /\ \A other \in Perms(m) :
               \A sortedTags \in SortedTags(other) :
                   serializeTLV(other, excludeTags, sortedTags) = result

\* a Map whose two tags were inserted in descending order, both emitted
C9_Witness ==
    /\ op = "serializeTLV" /\ pc = "serialized"
    /\ Len(m) = 2 /\ Len(emitted) = 2
    /\ TagNum(m[1][1]) > TagNum(m[2][1])

-----------------------------------------------------------------------------
(* C10: crc16 returns exactly 4 characters, each of 0-9 and A-F, the       *)
(* register being within 0..0xFFFF when rendered; "FFFF" for no input.     *)

C10_FourHexDigits ==
    (op = "crc16" /\ pc = "done") =>
        /\ Len(result) = 4
        /\ \A k \in 1..Len(result) : result[k] \in Range(HexDigits)
        /\ crcFinal(data).hi = 0 /\ crcFinal(data).lo \in 0..65535
        /\ data = <<>> => result = <<"F", "F", "F", "F">>

\* an input with a character beyond U+00FF whose checksum needs padding
C10_Witness ==
    /\ op = "crc16" /\ pc = "done"
    /\ "wideA" \in Range(data)
    /\ result[1] = "0"

-----------------------------------------------------------------------------
(* C11: the checksum record, tag 63, is the last record of every payload   *)
(* emitted: no record follows it in what serializeTLV emits when 63 is in  *)
(* the mapping and not excluded, tags greater than 63 included, nor in     *)
(* what generateDynamicQris returns, and the checksum value is not part of *)
(* the text it is computed over.                                           *)

SerializeDone == op = "serializeTLV" /\ pc = "serialized"

C11_ChecksumRecordLast ==
    /\ SerializeDone =>
           \A k \in 1..Len(emitted) : emitted[k][1] = Tag63 => k = Len(emitted)
    /\ GenDone =>
           LET covered == Concat(emitted) \o <<"6", "3", "0", "4">>
           IN  /\ \A k \in 1..Len(emitted) : emitted[k][1] # Tag63
               /\ result = covered \o crc16(covered)

-----------------------------------------------------------------------------
(* C13: for every sequence of ASCII characters, crc16 as coded (register   *)
(* masked to 16 bits once per character, after the 8 bit iterations)       *)
(* returns what the specified algorithm returns (register masked after     *)
(* each bit iteration, top bit tested on the masked register).             *)

Ascii(str) == \A k \in 1..Len(str) : CharCode(str[k]) < 128

\* the specified algorithm, on a register that is an integer of 0..0xFFFF
SpecifiedBitStep(r) ==
    IF r >= 32768 THEN Xor((2 * r) % 65536, poly) ELSE (2 * r) % 65536

RECURSIVE SpecifiedBitLoop(_, _)
SpecifiedBitLoop(r, j) ==
    IF j = 8 THEN r
    ELSE CHOOSE x \in {SpecifiedBitLoop(next, j + 1) : next \in {SpecifiedBitStep(r)}} : TRUE

RECURSIVE SpecifiedRegister(_, _)
SpecifiedRegister(r, str) ==
    IF str = <<>> THEN r
    ELSE CHOOSE x \in {SpecifiedRegister(next, Tail(str)) :
             next \in {SpecifiedBitLoop(Xor(r, 256 * CharCode(Head(str))), 0)}} : TRUE

SpecifiedCrc16(str) == PadStart(ToStringRadix(SpecifiedRegister(65535, str), 16), 4, "0")

C13_CodedEqualsSpecified ==
    (op = "crc16" /\ pc = "done" /\ Ascii(data)) => result = SpecifiedCrc16(data)

\* an ASCII input of several characters on which the coded register held
\* bits above bit 15 inside the first character's iteration
C13_Witness ==
    /\ op = "crc16" /\ pc = "done" /\ Ascii(data)
    /\ Len(data) >= 2
    /\ CharStepUnmasked(Word(0, 65535), data[1]).hi # 0

-----------------------------------------------------------------------------
(* C14: every record emitted by serializeTLV, for every mapping, has a     *)
(* length field of exactly two decimal digits whose value is the number of *)
(* characters of the record's value, so the record occupies 4 + length     *)
(* characters.                                                             *)

C14_TwoDigitLengthField ==
    \A k \in 1..Len(emitted) :
        LET tag    == emitted[k][1]
            length == emitted[k][2]
            value  == emitted[k][3]
        IN  /\ Len(length) = 2
            /\ IsDigit(length[1]) /\ IsDigit(length[2])
            /\ 10 * DigitVal(length[1]) + DigitVal(length[2]) = Len(value)
            /\ Len(tag \o length \o value) = 4 + Len(value)

-----------------------------------------------------------------------------
(* C15: when a well-formed payload holds the same tag more than once,      *)
(* parseTLV maps the tag to the value of its last occurrence, the mapping  *)
(* has one key per distinct tag, and the output of generateDynamicQris on  *)
(* that payload has exactly one record for that tag.                       *)

TagsOf(recs) == {recs[k][1] : k \in 1..Len(recs)}

ParsedInput ==
    op = "generateDynamicQris" /\ pc \in {"parsed", "done"} /\ Parsable(staticPayload)

C15_LastOccurrenceWins ==
    /\ ParsedInput =>
           /\ DistinctKeys(tags)
           /\ Range(Keys(tags)) = TagsOf(InputRecords)
           /\ \A t \in TagsOf(InputRecords) : MapGet(tags, t) = LastValue(InputRecords, t)
    /\ (GenDone /\ Parsable(staticPayload)) =>
           \A t \in TagsOf(InputRecords) :
               /\ CountTag(EmittedPairs, t) + (IF t = Tag63 THEN 1 ELSE 0) = 1
               /\ Len(amount) <= 99 => CountTag(OutputRecords, t) = 1

\* a payload that holds one tag twice, with two different values
C15_Witness ==
    /\ GenDone /\ Parsable(staticPayload)
    /\ \E k, l \in 1..Len(InputRecords) :
           /\ k < l
           /\ InputRecords[k][1] = InputRecords[l][1]
           /\ InputRecords[k][2] # InputRecords[l][2]
           /\ InputRecords[k][1] \notin {Tag01, Tag54, Tag63}

-----------------------------------------------------------------------------
(* C16: parseTLV terminates on every input: an iteration after which the   *)
(* loop goes on has strictly increased the cursor, so there are at most    *)
(* length(payload) iterations, whatever stands in the length field.        *)

C16_CursorStrictlyIncreases ==
    (pc = "parse" /\ ParseMore(payload, i)) =>
        LET next == ParseNext(i, ParseLength(payload, i))
        IN  ParseMore(payload, next) => (i >= 0 /\ next > i)

-----------------------------------------------------------------------------
(* generateDynamicQris as one call, for the callers of App.tsx.            *)

\* the while loop of parseTLV, utils.ts:35-41, from cursor at to its end;
\* defined for a payload on which the loop ends
RECURSIVE parseTLV(_, _, _)
parseTLV(p, at, map) ==
    IF ~ParseMore(p, at) THEN map
    ELSE parseTLV(p, ParseNext(at, ParseLength(p, at)),
                  MapSet(map, ParseTag(p, at), ParseValue(p, at)))

\* utils.ts:69-90, with the order Array.prototype.sort gives the keys
generateDynamicQris(p, amt) ==
    LET map        == SetDynamicTags(parseTLV(Trim(p), 0, <<>>), amt)
        sortedTags == CHOOSE st \in SortedTags(map) : TRUE
    IN  AppendChecksum(serializeTLV(map, {<<"6", "3">>}, sortedTags))

-----------------------------------------------------------------------------
(* The App component, src/App.tsx.  A handler reads the state of the       *)
(* render it was created in: an async handler keeps these values across    *)
(* its awaits, an event runs the handler of the latest render.             *)

\* what analyzeQrisImage can return as the payload of an image
MerchantPayloads ==
    { <<"0", "0", "0", "2", "0", "1">>, <<"0", "1", "0", "2", "1", "1">> }

\* what the amount field can be set to
AppAmounts == { <<>>, <<"5">> }

utilVars ==
    <<op, pc, staticPayload, payload, i, tags, rec, m, excludeTags, emitted, data, result, runs>>

InitApp ==
    /\ op = "App"
    /\ pc = "mounted"
    /\ amount = <<>>
    /\ staticPayload = <<>> /\ payload = <<>> /\ i = 0 /\ tags = <<>> /\ rec = <<>>
    /\ m = <<>> /\ excludeTags = {} /\ emitted = <<>> /\ data = <<>>
    /\ result = NoResult
    /\ runs = <<>>
    /\ AppInitial

\* what an async function keeps of the render it was called in, for the
\* code after its await: handleFileUpload reads savedMerchants (App.tsx:175),
\* startCamera hands over captureAndAnalyzeFrame, which reads isCameraActive,
\* isProcessing and savedMerchants (App.tsx:113,137), handleGenerate nothing
Closure(handler) ==
    [handler        |-> handler,
     savedMerchants |-> IF handler = "handleGenerate" THEN <<>> ELSE savedMerchants,
     isCameraActive |-> handler = "startCamera" /\ isCameraActive,
     isProcessing   |-> handler = "startCamera" /\ isProcessing]

\* an async function reaches its first await
Suspend(closure) ==
    /\ BagCardinality(pending) < MaxPending
    /\ pending' = pending (+) SetToBag({closure})

\* a suspended function runs on to its end
Resume(closure) ==
    /\ BagIn(closure, pending)
    /\ pending' = pending (-) SetToBag({closure})

\* the <input type="file"> of App.tsx:432 is rendered
FileInputMounted == view = "input" /\ staticQris = null /\ ~isCameraActive

\* the <video> of App.tsx:371 is rendered: videoRef.current is set
VideoMounted == view = "input" /\ staticQris = null /\ isCameraActive

\* the page under the merchant menu can be clicked
PageOpen == ~showMerchantMenu

\* Date.now() at App.tsx:134,170: the clock has ticked since it was last
\* read, and it is read MaxNow times at most
DateNow == {t \in {now + 1} : t <= MaxNow}

\* App.tsx:74-77
updateSavedMerchants(newList) ==
    /\ savedMerchants' = newList
    /\ qris_merchants' = newList

\* the new merchant is put first without looking for its payload
WithNewMerchantUnchecked(closed, newMerchant) == <<<<newMerchant>> \o closed>>

\* App.tsx:175-178 and 137-140: the list handed to updateSavedMerchants, if
\* any, computed from the savedMerchants the handler closed over
WithNewMerchant(closed, newMerchant) ==
    IF \E k \in 1..Len(closed) : closed[k].payload = newMerchant.payload
    THEN <<>>
    ELSE <<<<newMerchant>> \o closed>>

\* App.tsx:151-159: a file is chosen; handleFileUpload runs up to its await
handleFileUpload ==
    /\ FileInputMounted
    /\ Suspend(Closure("handleFileUpload"))
    /\ isProcessing' = TRUE
    /\ showMerchantMenu' = FALSE
    /\ UNCHANGED <<utilVars, amount, view, staticQris, dynamicQrisPayload, isCameraActive,
                   savedMerchants, scanIntervalRef, qris_merchants, now>>

\* App.tsx:160-178,181-184: the analysis returned a payload
handleFileUploadResolved(c) ==
    /\ c.handler = "handleFileUpload"
    /\ Resume(c)
    /\ \E p \in MerchantPayloads, t \in DateNow :
           LET newMerchant == [payload |-> p, id |-> t]
               newList     == WithNewMerchant(c.savedMerchants, newMerchant)
           IN  /\ staticQris' = newMerchant
               /\ now' = t
               /\ IF newList = <<>>
                  THEN UNCHANGED <<savedMerchants, qris_merchants>>
                  ELSE updateSavedMerchants(newList[1])
    /\ isProcessing' = FALSE
    /\ UNCHANGED <<utilVars, amount, view, dynamicQrisPayload, isCameraActive,
                   showMerchantMenu, scanIntervalRef>>

\* App.tsx:162-164,179-184: the analysis failed or found no payload
handleFileUploadRejected(c) ==
    /\ c.handler = "handleFileUpload"
    /\ Resume(c)
    /\ isProcessing' = FALSE
    /\ UNCHANGED <<utilVars, amount, view, staticQris, dynamicQrisPayload, isCameraActive,
                   savedMerchants, showMerchantMenu, scanIntervalRef, qris_merchants, now>>


\* App.tsx:79-90
stopCamera ==
    /\ scanIntervalRef' = <<>>
    /\ isCameraActive' = FALSE

\* App.tsx:92-98: the camera tile (App.tsx:440) or the menu's button
\* (App.tsx:313) is clicked; startCamera runs up to its await
startCamera ==
    /\ \/ FileInputMounted /\ PageOpen
       \/ showMerchantMenu
    /\ Suspend(Closure("startCamera"))
    /\ isProcessing' = FALSE
    /\ showMerchantMenu' = FALSE
    /\ UNCHANGED <<utilVars, amount, view, staticQris, dynamicQrisPayload, isCameraActive,
                   savedMerchants, scanIntervalRef, qris_merchants, now>>

\* App.tsx:100-105: the stream is there; it is attached, and the interval
\* set with the captureAndAnalyzeFrame of startCamera's render, only when
\* the <video> is rendered
startCameraResolved(c) ==
    /\ c.handler = "startCamera"
    /\ Resume(c)
    /\ IF VideoMounted
       THEN /\ isCameraActive' = TRUE
            /\ scanIntervalRef' = <<c>>
       ELSE UNCHANGED <<isCameraActive, scanIntervalRef>>
    /\ UNCHANGED <<utilVars, amount, view, staticQris, dynamicQrisPayload, isProcessing,
                   savedMerchants, showMerchantMenu, qris_merchants, now>>

\* App.tsx:106-109: no permission or no camera
startCameraRejected(c) ==
    /\ c.handler = "startCamera"
    /\ Resume(c)
    /\ isCameraActive' = FALSE
    /\ UNCHANGED <<utilVars, amount, view, staticQris, dynamicQrisPayload, isProcessing,
                   savedMerchants, showMerchantMenu, scanIntervalRef, qris_merchants, now>>

\* App.tsx:112-128: the interval fires and a frame goes to the analysis
captureAndAnalyzeFrame ==
    /\ scanIntervalRef # <<>>
    /\ VideoMounted
    /\ scanIntervalRef[1].isCameraActive /\ ~scanIntervalRef[1].isProcessing
    /\ Suspend([scanIntervalRef[1] EXCEPT !.handler = "captureAndAnalyzeFrame"])
    /\ isProcessing' = TRUE
    /\ UNCHANGED <<utilVars, amount, view, staticQris, dynamicQrisPayload, isCameraActive,
                   savedMerchants, showMerchantMenu, scanIntervalRef, qris_merchants, now>>

\* App.tsx:128-147: the analysis of the frame returned a payload
captureAndAnalyzeFrameResolved(c) ==
    /\ c.handler = "captureAndAnalyzeFrame"
    /\ Resume(c)
    /\ \E p \in MerchantPayloads, t \in DateNow :
           LET newMerchant == [payload |-> p, id |-> t]
               newList     == WithNewMerchant(c.savedMerchants, newMerchant)
           IN  /\ staticQris' = newMerchant
               /\ now' = t
               /\ IF newList = <<>>
                  THEN UNCHANGED <<savedMerchants, qris_merchants>>
                  ELSE updateSavedMerchants(newList[1])
    /\ stopCamera
    /\ isProcessing' = FALSE
    /\ UNCHANGED <<utilVars, amount, view, dynamicQrisPayload, showMerchantMenu>>

\* App.tsx:129,142-147: no payload in the frame, or the analysis failed
captureAndAnalyzeFrameRejected(c) ==
    /\ c.handler = "captureAndAnalyzeFrame"
    /\ Resume(c)
    /\ isProcessing' = FALSE
    /\ UNCHANGED <<utilVars, amount, view, staticQris, dynamicQrisPayload, isCameraActive,
                   savedMerchants, showMerchantMenu, scanIntervalRef, qris_merchants, now>>

\* App.tsx:490,499: the amount field or a preset button
setAmount ==
    /\ view = "input" /\ PageOpen
    /\ amount' \in AppAmounts \ {amount}
    /\ UNCHANGED <<utilVars, appVars>>

\* App.tsx:187-195 behind the button of App.tsx:508-512: the payload is
\* generated and stored, then handleGenerate awaits the QR image
handleGenerate ==
    /\ view = "input" /\ PageOpen
    /\ amount # <<>> /\ ~isProcessing
    /\ staticQris # null
    /\ Suspend(Closure("handleGenerate"))
    /\ isProcessing' = TRUE
    /\ dynamicQrisPayload' = generateDynamicQris(staticQris.payload, amount)
    /\ UNCHANGED <<utilVars, amount, view, staticQris, isCameraActive, savedMerchants,
                   showMerchantMenu, scanIntervalRef, qris_merchants, now>>

\* App.tsx:203-204,207-209: the image is there
handleGenerateResolved(c) ==
    /\ c.handler = "handleGenerate"
    /\ Resume(c)
    /\ view' = "result"
    /\ isProcessing' = FALSE
    /\ UNCHANGED <<utilVars, amount, staticQris, dynamicQrisPayload, isCameraActive,
                   savedMerchants, showMerchantMenu, scanIntervalRef, qris_merchants, now>>

\* App.tsx:205-209: QRCode.toDataURL failed
handleGenerateRejected(c) ==
    /\ c.handler = "handleGenerate"
    /\ Resume(c)
    /\ isProcessing' = FALSE
    /\ UNCHANGED <<utilVars, amount, view, staticQris, dynamicQrisPayload, isCameraActive,
                   savedMerchants, showMerchantMenu, scanIntervalRef, qris_merchants, now>>

\* App.tsx:522: the back button of the result view
backToInput ==
    /\ view = "result" /\ PageOpen
    /\ view' = "input"
    /\ UNCHANGED <<utilVars, amount, staticQris, dynamicQrisPayload, isProcessing,
                   isCameraActive, savedMerchants, showMerchantMenu, scanIntervalRef,
                   qris_merchants, pending, now>>

\* App.tsx:212-220 behind the button of App.tsx:583
resetToHome ==
    /\ view = "result" /\ PageOpen
    /\ staticQris' = null
    /\ amount' = <<>>
    /\ dynamicQrisPayload' = nullString
    /\ view' = "input"
    /\ stopCamera
    /\ UNCHANGED <<utilVars, isProcessing, savedMerchants, showMerchantMenu,
                   qris_merchants, pending, now>>

\* App.tsx:344,361: the history and the switch buttons of the input view
openMerchantMenu ==
    /\ view = "input" /\ PageOpen
    /\ showMerchantMenu' = TRUE
    /\ UNCHANGED <<utilVars, amount, view, staticQris, dynamicQrisPayload, isProcessing,
                   isCameraActive, savedMerchants, scanIntervalRef, qris_merchants,
                   pending, now>>

\* App.tsx:256
closeMerchantMenu ==
    /\ showMerchantMenu
    /\ showMerchantMenu' = FALSE
    /\ UNCHANGED <<utilVars, amount, view, staticQris, dynamicQrisPayload, isProcessing,
                   isCameraActive, savedMerchants, scanIntervalRef, qris_merchants,
                   pending, now>>

\* App.tsx:271: an entry of the menu is clicked
selectMerchant(k) ==
    /\ showMerchantMenu
    /\ staticQris' = savedMerchants[k]
    /\ showMerchantMenu' = FALSE
    /\ UNCHANGED <<utilVars, amount, view, dynamicQrisPayload, isProcessing,
                   isCameraActive, savedMerchants, scanIntervalRef, qris_merchants,
                   pending, now>>

\* savedMerchants.filter(m => m.id !== id), App.tsx:292
WithoutId(list, id) == SelectSeq(list, LAMBDA x : x.id # id)

\* App.tsx:289-295: the delete button of an entry of the menu
deleteMerchant(k) ==
    /\ showMerchantMenu
    /\ updateSavedMerchants(WithoutId(savedMerchants, savedMerchants[k].id))
    /\ staticQris' = IF staticQris.id = savedMerchants[k].id THEN null ELSE staticQris
    /\ UNCHANGED <<utilVars, amount, view, dynamicQrisPayload, isProcessing,
                   isCameraActive, showMerchantMenu, scanIntervalRef, pending, now>>

\* App.tsx:464: the X button of the selected merchant
clearMerchant ==
    /\ view = "input" /\ PageOpen
    /\ staticQris # null
    /\ staticQris' = null
    /\ UNCHANGED <<utilVars, amount, view, dynamicQrisPayload, isProcessing,
                   isCameraActive, savedMerchants, showMerchantMenu, scanIntervalRef,
                   qris_merchants, pending, now>>

\* captureAndAnalyzeFrame is left out: the interval that calls it is set
\* only while the <video> is rendered, and the <video> is rendered only
\* after isCameraActive was set in the same branch (CameraNeverStarts)
NextApp ==
    \/ handleFileUpload
    \/ startCamera
    \/ setAmount
    \/ handleGenerate
    \/ backToInput
    \/ resetToHome
    \/ openMerchantMenu
    \/ closeMerchantMenu
    \/ \E k \in 1..Len(savedMerchants) : selectMerchant(k)
    \/ \E k \in 1..Len(savedMerchants) : deleteMerchant(k)
    \/ clearMerchant
    \/ \E c \in BagToSet(pending) : handleFileUploadResolved(c)
    \/ \E c \in BagToSet(pending) : handleFileUploadRejected(c)
    \/ \E c \in BagToSet(pending) : startCameraResolved(c)
    \/ \E c \in BagToSet(pending) : startCameraRejected(c)
    \/ \E c \in BagToSet(pending) : handleGenerateResolved(c)
    \/ \E c \in BagToSet(pending) : handleGenerateRejected(c)

SpecApp == InitApp /\ [][NextApp]_vars

\* the camera never becomes active and no frame is ever analysed
CameraNeverStarts ==
    /\ ~isCameraActive
    /\ scanIntervalRef = <<>>
    /\ ~ENABLED captureAndAnalyzeFrame

-----------------------------------------------------------------------------
(* generateDynamicQris applied again: to its own output with a second      *)
(* amount, then to the first input with that second amount.                *)

\* well-formed records with 2-digit tags, as the string stands
WellFormedTags(s) ==
    /\ WellFormed(s)
    /\ \A k \in 1..Len(Records(s)) : IsTag(Records(s)[k][1])

FirstAmounts == { <<"5">>, Rep("7", 99) }

SecondAmounts == { <<"5">>, <<"1", "0", "0", "0", "0">> }

InitTwice ==
    /\ op = "generateDynamicQris"
    /\ pc = "start"
    /\ staticPayload \in {p \in Payloads(MaxTwiceRecs) : WellFormedTags(p) \/ Parsable(p)}
    /\ amount \in FirstAmounts
    /\ payload = <<>> /\ i = 0 /\ tags = <<>> /\ rec = <<>>
    /\ m = <<>> /\ excludeTags = {} /\ emitted = <<>> /\ data = <<>>
    /\ result = NoResult
    /\ runs = <<>>
    /\ AppInitial

ThisRun == [staticPayload |-> staticPayload, amount |-> amount, result |-> result]

\* the call generateDynamicQris(nextPayload, nextAmount) after a completed one
CallAgain(nextPayload, nextAmount) ==
    /\ op = "generateDynamicQris" /\ pc = "done"
    /\ runs' = Append(runs, ThisRun)
    /\ staticPayload' = nextPayload
    /\ amount' = nextAmount
    /\ pc' = "start"
    /\ payload' = <<>> /\ i' = 0 /\ tags' = <<>> /\ rec' = <<>>
    /\ m' = <<>> /\ excludeTags' = {} /\ emitted' = <<>>
    /\ result' = NoResult
    /\ UNCHANGED <<appVars, op, data>>

\* generateDynamicQris(generateDynamicQris(p, a1), a2)
Reapply == Len(runs) = 0 /\ \E a2 \in SecondAmounts : CallAgain(result, a2)

\* generateDynamicQris(p, a2)
Direct == Len(runs) = 1 /\ CallAgain(runs[1].staticPayload, amount)

NextTwice == GenStart \/ ParseStep \/ ParseReturn \/ GenFinish \/ Reapply \/ Direct

SpecTwice == InitTwice /\ [][NextTwice]_vars

-----------------------------------------------------------------------------
(* C17: for every well-formed payload p (2-digit tags, correct lengths)    *)
(* and amounts a1, a2 of at most 99 characters,                            *)
(* generateDynamicQris(generateDynamicQris(p, a1), a2) is                  *)
(* generateDynamicQris(p, a2); with a2 = a1 the second transformation      *)
(* returns its input unchanged.                                            *)

TwiceDone == GenDone /\ Len(runs) = 2

C17_ReapplyingIsStable ==
    (TwiceDone /\ Len(runs[1].amount) <= 99 /\ Len(amount) <= 99) =>
        /\ runs[2].staticPayload = runs[1].result
        /\ staticPayload = runs[1].staticPayload /\ amount = runs[2].amount
        /\ runs[2].result = result
        /\ runs[1].amount = amount => runs[2].result = runs[2].staticPayload

\* a static payload with a checksum record and records in descending order,
\* transformed with a first amount of 99 characters and then another amount
C17_Witness ==
    /\ TwiceDone
    /\ Len(runs[1].amount) = 99 /\ amount # runs[1].amount
    /\ WellFormedTags(staticPayload)
    /\ Len(Records(staticPayload)) = 2
    /\ Records(staticPayload)[1][1] = Tag63
    /\ ~Ascending(Records(staticPayload))

\* the same amount twice: the second transformation had nothing to change
C17_WitnessSameAmount ==
    /\ TwiceDone
    /\ runs[1].amount = amount
    /\ runs[2].result = runs[2].staticPayload
    /\ runs[1].result # runs[1].staticPayload

-----------------------------------------------------------------------------
(* C12: after any interleaving of file uploads, camera captures and        *)
(* deletions, no two entries of savedMerchants, nor of the stored          *)
(* 'qris_merchants' list, have the same payload string, and a newly added  *)
(* entry is placed at the head of the list.                                *)

NoPayloadTwice(list) ==
    \A x, y \in 1..Len(list) : x # y => list[x].payload # list[y].payload

\* a step that changes the history deletes the entries of one id or puts
\* the merchant just analysed, now the selected one, at the head
DeletionOrAddAtHead ==
    savedMerchants' # savedMerchants =>
        \/ \E k \in 1..Len(savedMerchants) :
               savedMerchants' = WithoutId(savedMerchants, savedMerchants[k].id)
        \/ /\ savedMerchants' # <<>>
           /\ Head(savedMerchants') = staticQris'
           /\ staticQris' # staticQris

C12_HistoryDeduplicated ==
    /\ [](/\ NoPayloadTwice(savedMerchants)
          /\ NoPayloadTwice(qris_merchants)
          /\ qris_merchants = savedMerchants)
    /\ [][DeletionOrAddAtHead]_vars

\* an upload returned a payload that its history already held: the new
\* merchant is selected and the history keeps the older entry alone
C12_Witness ==
    /\ savedMerchants # <<>>
    /\ staticQris # null
    /\ \A k \in 1..Len(savedMerchants) : savedMerchants[k] # staticQris
    /\ \E k \in 1..Len(savedMerchants) : savedMerchants[k].payload = staticQris.payload
    /\ qris_merchants = savedMerchants

-----------------------------------------------------------------------------
(* C18: whenever the result view is shown, the payload on display is the   *)
(* one generated from the merchant and the amount on display:              *)
(* view = 'result' implies dynamicQrisPayload =                            *)
(* generateDynamicQris(staticQris.payload, amount), under every            *)
(* interleaving of user actions with the end of image analyses in flight.  *)

C18_ResultMatchesMerchantAndAmount ==
    view = "result" =>
        /\ staticQris # null
        /\ dynamicQrisPayload = generateDynamicQris(staticQris.payload, amount)

-----------------------------------------------------------------------------
(* C19: no history update is lost or undone.  With several analyses in     *)
(* flight and deletions meanwhile, savedMerchants is what applying each    *)
(* add and each delete in the order they complete gives: an add by one     *)
(* upload is not dropped by an upload finishing later, and a deleted       *)
(* merchant is not restored by an upload started before the deletion.      *)

\* the add of newMerchant applied to the history as it is now
AddedTo(list, newMerchant) ==
    IF \E k \in 1..Len(list) : list[k].payload = newMerchant.payload
    THEN list
    ELSE <<newMerchant>> \o list

\* a step that reads the clock is the end of an analysis that returned a
\* payload, the new merchant being selected; any other change of the
\* history is one deletion
AppliedToCurrentHistory ==
    /\ now' # now => savedMerchants' = AddedTo(savedMerchants, staticQris')
    /\ (now' = now /\ savedMerchants' # savedMerchants) =>
           \E k \in 1..Len(savedMerchants) :
               savedMerchants' = WithoutId(savedMerchants, savedMerchants[k].id)

C19_NoUpdateLostOrUndone == [][AppliedToCurrentHistory]_vars

====
